---- MODULE Spec2Model ----
(***************************************************************************)
(* A model of scrape_this.py: the crawl loop of `scrape`, the link         *)
(* extraction of extract_links_from_page, the URL classifiers and the      *)
(* link filters.                                                           *)
(*                                                                         *)
(* Strings are sequences of tokens.  A host name is a sequence of          *)
(* one-character tokens ("s", ".", "c"), so that str.replace and           *)
(* str.endswith act on it character by character.  A path, a query and a   *)
(* fragment are sequences of the tokens "/", ".", "?" and of name tokens   *)
(* ("a", "pdf", "api"), none of which contains a separator.                *)
(***************************************************************************)
EXTENDS Integers, Sequences, FiniteSets, TLC

(***************************************************************************)
(* str methods                                                             *)
(***************************************************************************)

\* str.startswith(t)
StartsWith(s, t) == Len(s) >= Len(t) /\ SubSeq(s, 1, Len(t)) = t

\* str.endswith(t)
EndsWith(s, t) == Len(s) >= Len(t) /\ SubSeq(s, Len(s) - Len(t) + 1, Len(s)) = t

\* str.lower() of one token; the tokens of the model that hold capitals
Lower(t) ==
    CASE t = "HTTP" -> "http"
      [] t = "HTTPS" -> "https"
      [] t = "JavaScript" -> "javascript"
      [] t = "Mailto" -> "mailto"
      [] t = "PDF" -> "pdf"
      [] t = "API" -> "api"
      [] OTHER -> t

\* str.lower() of a token sequence
LowerSeq(s) == [i \in 1..Len(s) |-> Lower(s[i])]

\* the literal 'www.' of domain.replace('www.', '')
Www == <<"w", "w", "w", ".">>

\* str.replace('www.', ''): every non-overlapping occurrence, left to right
RECURSIVE ReplaceWww(_)
ReplaceWww(s) ==
    IF s = <<>> THEN <<>>
    ELSE IF StartsWith(s, Www) THEN ReplaceWww(SubSeq(s, Len(Www) + 1, Len(s)))
    ELSE <<Head(s)>> \o ReplaceWww(Tail(s))

(***************************************************************************)
(* UrlClassifier: domain relationship                                      *)
(***************************************************************************)

is_subdomain_of(domain, base_domain) ==
    IF domain = <<>> \/ base_domain = <<>> \/ domain = base_domain THEN FALSE
    ELSE LET domain_clean == ReplaceWww(domain)
             base_clean == ReplaceWww(base_domain)
         IN  IF domain_clean = base_clean THEN FALSE
             ELSE EndsWith(domain_clean, <<".">> \o base_clean)

is_same_or_subdomain(domain, base_domain) ==
    IF domain = <<>> \/ base_domain = <<>> THEN FALSE
    ELSE LET domain_clean == ReplaceWww(domain)
             base_clean == ReplaceWww(base_domain)
         IN  IF domain_clean = base_clean THEN TRUE
             ELSE EndsWith(domain_clean, <<".">> \o base_clean)

(***************************************************************************)
(* URLs.  A URL string is held by its components, as urlparse splits it:   *)
(* [scheme, netloc, path, query, fragment]; the scheme keeps the case it   *)
(* was written in, and an absent component is the empty sequence.          *)
(***************************************************************************)

\* urlparse(url).scheme: the scheme is lower-cased by the parser
ParsedScheme(u) == Lower(u.scheme)

\* The index of the last token of s equal to t, 0 when there is none (str.rfind)
LastIndexOf(s, t) ==
    LET hits == {i \in 1..Len(s) : s[i] = t}
    IN  IF hits = {} THEN 0 ELSE CHOOSE i \in hits : \A j \in hits : j <= i

\* Path(p): pathlib drops the trailing separators of a path
RECURSIVE DropTrailingSlash(_)
DropTrailingSlash(p) ==
    IF p # <<>> /\ p[Len(p)] = "/" THEN DropTrailingSlash(SubSeq(p, 1, Len(p) - 1))
    ELSE p

\* Path(p).name: the last component of the path
PathName(p) ==
    LET q == DropTrailingSlash(p)
    IN  SubSeq(q, LastIndexOf(q, "/") + 1, Len(q))

\* Path(p).suffix: from the last dot of the name, unless the name starts or
\* ends with that dot
PathSuffix(p) ==
    LET name == PathName(p)
        i == LastIndexOf(name, ".")
    IN  IF 1 < i /\ i < Len(name) THEN SubSeq(name, i, Len(name)) ELSE <<>>

(***************************************************************************)
(* An href attribute value, as written in the page:                        *)
(*   ws        it carries leading or trailing white space                  *)
(*   scheme    the text before the first ":" ("" when there is none)       *)
(*   netloc    the host after "//" (<<>> when there is none)               *)
(*   path, query, fragment                                                 *)
(*   frag      a "#" is written (the fragment after it may be empty)       *)
(*   bad       urljoin raises ValueError on it (an unclosed "[" host)      *)
(***************************************************************************)

\* str.strip()
Strip(h) == [h EXCEPT !.ws = FALSE]

\* `if href:` / `if not href`: the empty string
IsEmptyStr(h) ==
    /\ ~h.ws /\ ~h.bad /\ ~h.frag
    /\ h.scheme = "" /\ h.netloc = <<>> /\ h.path = <<>> /\ h.query = <<>>

\* href.startswith("#")
StartsWithHash(h) ==
    /\ ~h.ws /\ ~h.bad /\ h.frag
    /\ h.scheme = "" /\ h.netloc = <<>> /\ h.path = <<>> /\ h.query = <<>>

\* href.startswith(prefix + ":"), a case-sensitive match
StartsWithScheme(h, prefix) == ~h.ws /\ h.scheme = prefix

\* Mutant: the "#" prefix left out of the skip test
IsSkippedHref_NoHashTest(href) ==
    \/ StartsWithScheme(href, "mailto")
    \/ StartsWithScheme(href, "javascript")

\* The test of the "Skip problematic links" branch
IsSkippedHref(href) ==
    \/ StartsWithHash(href)
    \/ StartsWithScheme(href, "mailto")
    \/ StartsWithScheme(href, "javascript")

\* urllib.parse.uses_relative, the schemes the model uses among them
uses_relative == {"http", "https", "ftp"}

\* The path of a relative reference merged with the base path (urljoin)
MergePath(bpath, path) ==
    IF bpath = <<>> THEN <<"/">> \o path
    ELSE SubSeq(bpath, 1, LastIndexOf(bpath, "/")) \o path

\* urljoin(base, href) for a non-empty href without dot segments
urljoin(base, h) ==
    LET bscheme == Lower(base.scheme)
        scheme == IF h.scheme = "" THEN bscheme ELSE Lower(h.scheme)
    IN  IF scheme # bscheme \/ scheme \notin uses_relative
        THEN \* another scheme: the reference is returned as written
             [scheme |-> h.scheme, netloc |-> h.netloc, path |-> h.path,
              query |-> h.query, fragment |-> h.fragment]
        ELSE IF h.netloc # <<>>
        THEN [scheme |-> scheme, netloc |-> h.netloc, path |-> h.path,
              query |-> h.query, fragment |-> h.fragment]
        ELSE IF h.path = <<>>
        THEN [scheme |-> scheme, netloc |-> base.netloc, path |-> base.path,
              query |-> IF h.query = <<>> THEN base.query ELSE h.query,
              fragment |-> h.fragment]
        ELSE IF Head(h.path) = "/"
        THEN [scheme |-> scheme, netloc |-> base.netloc, path |-> h.path,
              query |-> h.query, fragment |-> h.fragment]
        ELSE [scheme |-> scheme, netloc |-> base.netloc,
              path |-> MergePath(base.path, h.path),
              query |-> h.query, fragment |-> h.fragment]

(***************************************************************************)
(* UrlClassifier: link type                                                *)
(***************************************************************************)

image_extensions == {"jpg", "jpeg", "png", "gif", "bmp", "svg", "webp", "ico"}
doc_extensions == {"pdf", "doc", "docx", "xls", "xlsx", "ppt", "pptx", "txt", "rtf"}
video_extensions == {"mp4", "avi", "mkv", "mov", "wmv", "flv", "webm"}
audio_extensions == {"mp3", "wav", "flac", "aac", "ogg", "wma"}
archive_extensions == {"zip", "rar", "tar", "gz", "7z", "bz2"}
code_extensions == {"js", "css", "json", "xml", "html", "htm", "php", "py", "java"}

\* `x in s` for a one-token x
Contains(s, t) == \E i \in 1..Len(s) : s[i] = t

\* 'api' in path: the name tokens of the model that contain "api"
ContainsApi(path) == \E i \in 1..Len(path) : path[i] \in {"api"}

\* Mutant: a path without a suffix is not recognised as a page
get_link_type_NoPageRule(url) ==
    LET path == LowerSeq(url.path)
        suffix == LowerSeq(PathSuffix(path))
        file_ext == IF suffix = <<>> THEN ""
                    ELSE IF Len(suffix) = 2 THEN suffix[2] ELSE "?"
    IN  IF file_ext \in image_extensions THEN "image"
        ELSE IF file_ext \in doc_extensions THEN "document"
        ELSE IF file_ext \in video_extensions THEN "video"
        ELSE IF file_ext \in audio_extensions THEN "audio"
        ELSE IF file_ext \in archive_extensions THEN "archive"
        ELSE IF file_ext \in code_extensions THEN "code"
        ELSE IF Contains(url.query, "?") \/ ContainsApi(path) THEN "api"
        ELSE "other"

get_link_type(url) ==
    LET path == LowerSeq(url.path)
        suffix == LowerSeq(PathSuffix(path))
        \* the suffix without its dot; "" when there is no suffix
        file_ext == IF suffix = <<>> THEN ""
                    ELSE IF Len(suffix) = 2 THEN suffix[2] ELSE "?"
    IN  IF file_ext \in image_extensions THEN "image"
        ELSE IF file_ext \in doc_extensions THEN "document"
        ELSE IF file_ext \in video_extensions THEN "video"
        ELSE IF file_ext \in audio_extensions THEN "audio"
        ELSE IF file_ext \in archive_extensions THEN "archive"
        ELSE IF file_ext \in code_extensions THEN "code"
        ELSE IF Contains(url.query, "?") \/ ContainsApi(path) THEN "api"
        ELSE IF suffix = <<>> THEN "page"
        ELSE "other"

(***************************************************************************)
(* LinkExtractor.  A response is [anchors |-> the <a> elements in document *)
(* order]; an element is [ok, href, text, region]: ok is FALSE when        *)
(* reading the element raises or it has no attrs, href is the empty        *)
(* string when the attribute is absent, region is what detect_link_source  *)
(* finds for it.                                                           *)
(***************************************************************************)

\* detect_link_source(elem, response)
detect_link_source(elem) == elem.region

\* href_to_data[href] = data: a dict keeps the place of a key already there
DictSet(d, href, data) ==
    IF \E i \in 1..Len(d) : d[i].href = href
    THEN [i \in 1..Len(d) |-> IF d[i].href = href THEN data ELSE d[i]]
    ELSE Append(d, data)

\* First pass: the elements that can be read and carry an href
RECURSIVE FirstPass(_, _)
FirstPass(elems, d) ==
    IF elems = <<>> THEN d
    ELSE LET elem == Head(elems)
             href == Strip(elem.href)
         IN  FirstPass(Tail(elems),
                 IF elem.ok /\ ~IsEmptyStr(elem.href)
                 THEN DictSet(d, href, [href |-> href, text |-> elem.text,
                                        source |-> detect_link_source(elem)])
                 ELSE d)

\* Fallback: the values response.css('a::attr(href)') yields
RECURSIVE FallbackPass(_, _)
FallbackPass(elems, d) ==
    IF elems = <<>> THEN d
    ELSE LET href == Strip(Head(elems).href)
         IN  FallbackPass(Tail(elems),
                 IF ~IsEmptyStr(Head(elems).href)
                 THEN DictSet(d, href, [href |-> href, text |-> "",
                                        source |-> "unknown"])
                 ELSE d)

\* The link_data record of one href, absolute_url being its absolute form
link_data(href, link_info, absolute_url, current_url, base_domain, include_subdomains) ==
    LET link_domain == absolute_url.netloc
        is_subdomain == is_subdomain_of(link_domain, base_domain)
        is_internal ==
            \/ link_domain = base_domain
            \/ link_domain = <<>>
            \/ is_same_or_subdomain(link_domain, base_domain)
            \/ (include_subdomains /\ is_subdomain)
    IN  [url |-> absolute_url,
         text |-> link_info.text,
         domain |-> link_domain,
         path |-> absolute_url.path,
         query |-> absolute_url.query,
         fragment |-> absolute_url.fragment,
         is_internal |-> is_internal,
         is_subdomain |-> is_subdomain,
         link_type |-> get_link_type(absolute_url),
         source |-> link_info.source,
         original_href |-> href,
         found_on_page |-> current_url]

\* "Process all collected hrefs": the loop over href_to_data.items(), at its
\* i-th item; an exception of urljoin leaves the loop and is caught by the outer
\* handler, which returns the links built so far
RECURSIVE ProcessHrefs(_, _, _, _, _, _)
ProcessHrefs(d, i, current_url, base_domain, include_subdomains, all_links_) ==
    IF i > Len(d) THEN all_links_
    ELSE LET href == d[i].href
             link_info == d[i]
             absolute_url == urljoin(current_url, href)
         IN  IF IsEmptyStr(href) \/ IsSkippedHref(href)
             THEN ProcessHrefs(d, i + 1, current_url, base_domain,
                               include_subdomains, all_links_)
             ELSE IF href.bad THEN all_links_
             ELSE IF ParsedScheme(absolute_url) \in {"http", "https"}
             THEN ProcessHrefs(d, i + 1, current_url, base_domain, include_subdomains,
                      Append(all_links_,
                             link_data(href, link_info, absolute_url, current_url,
                                       base_domain, include_subdomains)))
             ELSE ProcessHrefs(d, i + 1, current_url, base_domain,
                               include_subdomains, all_links_)

extract_links_from_page(response, current_url, base_domain, include_subdomains) ==
    LET first == FirstPass(response.anchors, <<>>)
        href_to_data == IF first = <<>> THEN FallbackPass(response.anchors, <<>>)
                        ELSE first
    IN  ProcessHrefs(href_to_data, 1, current_url, base_domain, include_subdomains, <<>>)

(***************************************************************************)
(* LinkFilterPipeline                                                      *)
(***************************************************************************)

\* The URL string of a link, as the tokens of link['url']
UrlStr(u) ==
    (IF u.netloc # <<>> THEN <<u.scheme, "://">> \o u.netloc
     ELSE IF u.scheme # "" THEN <<u.scheme, ":">> ELSE <<>>)
    \o u.path
    \o (IF u.query # <<>> THEN <<"?">> \o u.query ELSE <<>>)
    \o (IF u.fragment # <<>> THEN <<"#">> \o u.fragment ELSE <<>>)

\* url.endswith('.' + ext) for one of the extensions
HasExtension(link, extension_filters) ==
    \E i \in 1..Len(extension_filters) :
        EndsWith(LowerSeq(UrlStr(link.url)), <<".", extension_filters[i]>>)

filter_by_extensions(links, extension_filters) ==
    LET keep(link) == HasExtension(link, extension_filters)
    IN  SelectSeq(links, keep)

\* type_groups
type_groups(filter_type) ==
    CASE filter_type = "images" -> {"image"}
      [] filter_type = "documents" -> {"document"}
      [] filter_type = "media" -> {"video", "audio"}
      [] filter_type = "pages" -> {"page"}
      [] filter_type = "files" -> {"document", "image", "video", "audio", "archive"}
      [] filter_type = "code" -> {"code"}
      [] filter_type = "api" -> {"api"}
      [] OTHER -> {filter_type}

\* f".{filter_ext}" in url
DotTokenIn(url, filter_ext) ==
    \E i \in 1..(Len(url) - 1) : url[i] = "." /\ url[i + 1] = filter_ext

filter_by_types(links, type_filters) ==
    LET expanded_filters ==
            UNION {type_groups(type_filters[i]) : i \in 1..Len(type_filters)}
        keep(link) ==
            \/ link.link_type \in expanded_filters
            \/ \E i \in 1..Len(type_filters) :
                   DotTokenIn(LowerSeq(UrlStr(link.url)), type_filters[i])
    IN  SelectSeq(links, keep)

\* The scope stage: the first flag set wins
ScopeFilter(links, internal_only_, external_only_, subdomains_only_) ==
    LET internal(l) == l.is_internal
        external(l) == ~l.is_internal /\ ~l.is_subdomain
        subdomain(l) == l.is_subdomain
    IN  IF internal_only_ THEN SelectSeq(links, internal)
        ELSE IF external_only_ THEN SelectSeq(links, external)
        ELSE IF subdomains_only_ THEN SelectSeq(links, subdomain)
        ELSE links

\* Mutant: the type stage is an `elif` of the extension stage
filter_links_ElifTypes(links, internal_only_, external_only_, subdomains_only_, extensions_, filter_types_, unique_only_, existing_links) ==
    LET scoped == ScopeFilter(links, internal_only_, external_only_, subdomains_only_)
    IN  IF extensions_ # <<>> THEN filter_by_extensions(scoped, extensions_)
        ELSE IF filter_types_ # <<>> THEN filter_by_types(scoped, filter_types_)
        ELSE scoped

\* filter_links: unique_only and existing_links are accepted and not read
filter_links(links, internal_only_, external_only_, subdomains_only_, extensions_, filter_types_, unique_only_, existing_links) ==
    LET scoped == ScopeFilter(links, internal_only_, external_only_, subdomains_only_)
        by_ext == IF extensions_ # <<>> THEN filter_by_extensions(scoped, extensions_)
                  ELSE scoped
    IN  IF filter_types_ # <<>> THEN filter_by_types(by_ext, filter_types_)
        ELSE by_ext

\* Mutant: the URL of a kept link is not added to seen_urls
UniqueLinks_SeenNotUpdated(links, seen_urls) ==
    SelectSeq(links, LAMBDA link : link.url \notin seen_urls)

\* "Remove duplicates globally": the first link of each URL, in order
RECURSIVE UniqueLinks(_, _)
UniqueLinks(links, seen_urls) ==
    IF links = <<>> THEN <<>>
    ELSE IF Head(links).url \in seen_urls THEN UniqueLinks(Tail(links), seen_urls)
    ELSE <<Head(links)>> \o UniqueLinks(Tail(links), seen_urls \cup {Head(links).url})

(***************************************************************************)
(* LinkValidator.  The outcome of a probe is [raised, status]: Fetcher.get *)
(* raised, or it answered with that status.                                *)
(***************************************************************************)

\* The link after its probe: the fields validate_links sets on it
Validated(link, outcome) ==
    IF outcome.raised
    THEN [status_code |-> 0, is_accessible |-> FALSE, error |-> "error"] @@ link
    ELSE [status_code |-> outcome.status,
          is_accessible |-> outcome.status < 400] @@ link

\* Mutant: the try encloses the loop, the first probe that raises ends the pass
validate_links_AbortsOnError(links, outcomes) ==
    LET n == CHOOSE k \in 0..Len(links) :
                 /\ \A i \in 1..k : ~outcomes[i].raised
                 /\ (k = Len(links) \/ outcomes[k + 1].raised)
    IN  [i \in 1..n |-> Validated(links[i], outcomes[i])]

\* validate_links(links, headers), outcomes[i] being the outcome of the probe
\* of links[i]
validate_links(links, outcomes) ==
    [i \in 1..Len(links) |-> Validated(links[i], outcomes[i])]

\* The 10 of `i % 10 == 0`
PauseEvery == 10

\* What the loop of validate_links does from the link of index i (counted from
\* 0) on: a "probe" per link, and a "pause" (time.sleep) after the probe of a
\* link whose index is a positive multiple of 10, when that probe did not raise
RECURSIVE ValidationEvents(_, _)
ValidationEvents(outcomes, i) ==
    IF i >= Len(outcomes) THEN <<>>
    ELSE <<"probe">>
         \o (IF ~outcomes[i + 1].raised /\ i > 0 /\ i % PauseEvery = 0
             THEN <<"pause">> ELSE <<>>)
         \o ValidationEvents(outcomes, i + 1)

\* The URLs validate_links sends a HEAD request for, in order
ProbedUrls(links) == [i \in 1..Len(links) |-> links[i].url]

(***************************************************************************)
(* The site the Fetcher serves: hosts, hrefs, pages                        *)
(***************************************************************************)

BaseHost == <<"s", ".", "c">>
WwwHost == Www \o BaseHost
SubHost == <<"x", ".">> \o BaseHost
OtherHost == <<"o", ".", "c">>

\* The URL https://host/path
PageUrl(host, path) ==
    [scheme |-> "https", netloc |-> host, path |-> path,
     query |-> <<>>, fragment |-> <<>>]

\* The empty href
NoHref ==
    [ws |-> FALSE, bad |-> FALSE, frag |-> FALSE, scheme |-> "", netloc |-> <<>>,
     path |-> <<>>, query |-> <<>>, fragment |-> <<>>]

\* href="/a", href="b"
Rel(path) == [NoHref EXCEPT !.path = path]

\* href="https://host/path"
Abs(scheme, host, path) ==
    [NoHref EXCEPT !.scheme = scheme, !.netloc = host, !.path = path]

\* href="#top"
FragOnly(fragment) == [NoHref EXCEPT !.frag = TRUE, !.fragment = fragment]

\* href="mailto:m", href="javascript:v"
Opaque(scheme, path) == [NoHref EXCEPT !.scheme = scheme, !.path = path]

\* An <a> element that can be read, and one whose reading raises
Anchor(href, text) == [ok |-> TRUE, href |-> href, text |-> text, region |-> "content"]
Broken(href) == [ok |-> FALSE, href |-> href, text |-> "", region |-> "content"]

\* The seed URL given on the command line
start_url == PageUrl(BaseHost, <<"/">>)

\* What the Fetcher returns for a URL when the request succeeds
Site(u) ==
    CASE u = start_url ->
            [anchors |-> << Anchor(Rel(<<"/", "a">>), "A"),
                            Anchor(Rel(<<"a">>), "A again"),
                            Anchor(Abs("https", SubHost, <<"/">>), "Sub"),
                            Anchor(Abs("https", OtherHost, <<"/", "x">>), "Other"),
                            Anchor(FragOnly(<<"top">>), "Top"),
                            Anchor(Rel(<<"/", "f", ".", "pdf">>), "File"),
                            Anchor(Opaque("mailto", <<"m">>), "Mail"),
                            Anchor(Rel(<<"/", "a">>), "A2") >>]
      [] u = PageUrl(BaseHost, <<"/", "a">>) ->
            [anchors |-> << Anchor(Rel(<<"/">>), "Home"),
                            Anchor(Rel(<<"b">>), "B"),
                            Anchor(Rel(<<"/", "a">>), "Self"),
                            Anchor(Opaque("JavaScript", <<"v">>), "Script") >>]
      [] u = PageUrl(BaseHost, <<"/", "b">>) ->
            [anchors |-> << Anchor(Rel(<<"/", "a">>), "A"),
                            Anchor(Rel(<<"/", "c">>), "C"),
                            Broken(Rel(<<"/", "d">>)) >>]
      [] u = PageUrl(BaseHost, <<"/", "c">>) ->
            [anchors |-> << Anchor(Abs("https", WwwHost, <<"/">>), "Www"),
                            Anchor(Rel(<<"/">>), "Home") >>]
      [] u = PageUrl(SubHost, <<"/">>) ->
            [anchors |-> << Anchor(Rel(<<"/", "a">>), "Sub A"),
                            Anchor(Abs("https", BaseHost, <<"/", "b">>), "B") >>]
      [] u = PageUrl(WwwHost, <<"/">>) ->
            [anchors |-> << Broken(Rel(<<"/", "e">>)) >>]
      [] OTHER -> [anchors |-> <<>>]

\* What a HEAD request for a URL yields while the hosts in `down` do not answer
Probe(u, down) ==
    IF u.netloc \in down THEN [raised |-> TRUE, status |-> 0]
    ELSE IF PathSuffix(u.path) # <<>> THEN [raised |-> FALSE, status |-> 404]
    ELSE [raised |-> FALSE, status |-> 200]

\* The sets of hosts that may be down when the links are validated
DownHosts == {{}, {OtherHost}}

(***************************************************************************)
(* Bounds of the model                                                     *)
(***************************************************************************)

MaxDepth == 2
MaxPages == 4
\* The longest page handed to a function called on its own, in <a> elements
MaxAnchors == 2
\* The longest link list handed to a function called on its own
MaxLinks == 2
\* The longest list of probes whose pacing is followed
MaxProbes == 12
\* The most pages whose comments are extracted in one crawl
MaxCommentPages == 2

\* The filter options a run is started with
FilterOptions ==
    { [internal_only |-> FALSE, external_only |-> FALSE, subdomains_only |-> FALSE,
       extensions |-> <<>>, filter_types |-> <<>>],
      [internal_only |-> TRUE, external_only |-> FALSE, subdomains_only |-> FALSE,
       extensions |-> <<>>, filter_types |-> <<>>],
      [internal_only |-> FALSE, external_only |-> FALSE, subdomains_only |-> FALSE,
       extensions |-> <<"pdf">>, filter_types |-> <<>>],
      [internal_only |-> FALSE, external_only |-> FALSE, subdomains_only |-> FALSE,
       extensions |-> <<>>, filter_types |-> <<"pages">>] }

(***************************************************************************)
(* The state of `scrape`                                                   *)
(***************************************************************************)

VARIABLES
    depth,                \* --depth
    max_pages,            \* --max-pages
    javascript,           \* --js
    include_subdomains,   \* --include-subdomains/--no-subdomains
    unique_only,          \* --unique/--allow-duplicates
    validate,             \* --validate
    filters,              \* the scope flags, --extensions and --filter
    visited,              \* set of URLs
    to_visit,             \* the frontier: a list of <<url, depth>>
    all_pages,            \* page records
    all_links,            \* the global link list
    total_pages_crawled,
    total_links_found,
    files_found,
    current,              \* <<current_url, current_depth>> of the iteration
    pc,                   \* where `scrape` stands
    requests,             \* the requests sent to the fetchers, in order
    probes,               \* the HEAD requests of validate_links, in order
    warnings,             \* the URLs of the "Failed to crawl" warnings
    output,               \* what output_results was called with
    call,                 \* the arguments of a function called on its own
    result                \* what that call returned

options == <<depth, max_pages, javascript, include_subdomains, unique_only, validate,
             filters>>

crawl == <<visited, to_visit, all_pages, all_links, total_pages_crawled,
           total_links_found, files_found>>

direct == <<call, result>>

vars == <<options, crawl, current, pc, requests, probes, warnings, output, direct>>

\* base_domain = urlparse(url).netloc
base_domain == start_url.netloc

\* No value (Python's None); a variable that holds a value holds <<value>> or,
\* for `current`, the pair itself
None == <<>>

\* The state of `scrape` when the loop is entered
CrawlInit ==
    /\ visited = {}
    /\ to_visit = << <<start_url, 0>> >>
    /\ all_pages = <<>>
    /\ all_links = <<>>
    /\ total_pages_crawled = 0
    /\ total_links_found = 0
    /\ files_found = <<>>
    /\ current = None
    /\ pc = "loop"
    /\ requests = <<>>
    /\ probes = <<>>
    /\ warnings = <<>>
    /\ output = None

Init ==
    /\ depth \in 0..MaxDepth
    /\ max_pages \in 0..MaxPages
    /\ javascript \in BOOLEAN
    /\ include_subdomains \in BOOLEAN
    /\ unique_only \in BOOLEAN
    /\ validate \in BOOLEAN
    /\ filters \in FilterOptions
    /\ CrawlInit
    /\ call = None
    /\ result = None

\* Mutant: the page bound compared with <= (one page too many)
LoopCondition_OffByOne == to_visit # <<>> /\ Cardinality(visited) <= max_pages

\* Mutant: the page bound left out of the loop condition
LoopCondition_NoPageBound == to_visit # <<>>

\* The condition of the while loop
LoopCondition == to_visit # <<>> /\ Cardinality(visited) < max_pages

\* Mutant: the visited test left out of the skip
IsSkipped_DepthOnly(current_url, current_depth) == current_depth > depth

\* The test that skips a frontier item
IsSkipped(current_url, current_depth) ==
    current_url \in visited \/ current_depth > depth

\* Mutant: the skipped item is read and left at the front of the frontier
Skip_KeepsItem ==
    /\ pc = "loop"
    /\ LoopCondition
    /\ IsSkipped(Head(to_visit)[1], Head(to_visit)[2])
    /\ UNCHANGED vars

\* An iteration that drops the item it popped
Skip ==
    /\ pc = "loop"
    /\ LoopCondition
    /\ IsSkipped(Head(to_visit)[1], Head(to_visit)[2])
    /\ to_visit' = Tail(to_visit)
    /\ UNCHANGED <<options, visited, all_pages, all_links, total_pages_crawled,
                   total_links_found, files_found, current, pc, requests,
                   warnings, output, direct, probes>>

\* An iteration up to the request: pop, mark visited, count
Dequeue ==
    /\ pc = "loop"
    /\ LoopCondition
    /\ ~IsSkipped(Head(to_visit)[1], Head(to_visit)[2])
    /\ to_visit' = Tail(to_visit)
    /\ visited' = visited \cup {Head(to_visit)[1]}
    /\ total_pages_crawled' = total_pages_crawled + 1
    /\ current' = Head(to_visit)
    /\ pc' = "fetch"
    /\ UNCHANGED <<options, all_pages, all_links, total_links_found, files_found,
                   requests, warnings, output, direct, probes>>

\* Mutant: links to files are followed like pages
IsCrawlable_FilesToo(link) ==
    /\ link.is_internal \/ (include_subdomains /\ link.is_subdomain)
    /\ link.url \notin visited

\* Mutant: links to pages already visited are put in the frontier again
IsCrawlable_VisitedToo(link) ==
    /\ link.is_internal \/ (include_subdomains /\ link.is_subdomain)
    /\ PathSuffix(link.url.path) = <<>>

\* The test that puts a link of the page in the frontier
IsCrawlable(link) ==
    /\ link.is_internal \/ (include_subdomains /\ link.is_subdomain)
    /\ PathSuffix(link.url.path) = <<>>
    /\ link.url \notin visited

\* Mutant: pages at the maximum depth still add their links
NewFrontier_DepthInclusive(page_links, current_depth) ==
    IF current_depth <= depth
    THEN LET crawlable == SelectSeq(page_links, IsCrawlable)
         IN  [i \in 1..Len(crawlable) |-> <<crawlable[i].url, current_depth + 1>>]
    ELSE <<>>

\* The links a page adds to the frontier, as <<url, depth>> items
NewFrontier(page_links, current_depth) ==
    IF current_depth < depth
    THEN LET crawlable == SelectSeq(page_links, IsCrawlable)
         IN  [i \in 1..Len(crawlable) |-> <<crawlable[i].url, current_depth + 1>>]
    ELSE <<>>

\* page_data of a page and its links
page_data(current_url, current_depth, page_links, page_files) ==
    LET internal(l) == l.is_internal
        external(l) == ~l.is_internal /\ ~l.is_subdomain
        subdomain(l) == l.is_subdomain
    IN  [url |-> current_url,
         depth |-> current_depth,
         links_on_page |-> Len(page_links),
         internal_links |-> Len(SelectSeq(page_links, internal)),
         external_links |-> Len(SelectSeq(page_links, external)),
         subdomain_links |-> Len(SelectSeq(page_links, subdomain)),
         files_found |-> Len(page_files)]

\* Mutant: the links of the page are put in front of the master list
ProcessPage_Prepends(response) ==
    \E page_links \in {extract_links_from_page(response, current[1], base_domain,
                                               include_subdomains)} :
    \E filtered_page_links \in
            {filter_links(page_links, filters.internal_only, filters.external_only,
                          filters.subdomains_only, filters.extensions,
                          filters.filter_types, unique_only,
                          IF unique_only THEN all_links ELSE None)} :
    \E page_files \in {IF filters.extensions # <<>>
                       THEN filter_by_extensions(page_links, filters.extensions)
                       ELSE <<>>} :
        /\ files_found' = files_found \o page_files
        /\ all_links' = filtered_page_links \o all_links
        /\ total_links_found' = total_links_found + Len(filtered_page_links)
        /\ to_visit' = to_visit \o NewFrontier(page_links, current[2])
        /\ all_pages' = Append(all_pages,
                               page_data(current[1], current[2], page_links, page_files))
        /\ pc' = "loop"
        /\ UNCHANGED <<options, visited, total_pages_crawled, current, warnings,
                       output, direct, probes>>

\* Mutant: the frontier is fed with the links that passed the output filters
ProcessPage_FiltersFrontier(response) ==
    \E page_links \in {extract_links_from_page(response, current[1], base_domain,
                                               include_subdomains)} :
    \E filtered_page_links \in
            {filter_links(page_links, filters.internal_only, filters.external_only,
                          filters.subdomains_only, filters.extensions,
                          filters.filter_types, unique_only,
                          IF unique_only THEN all_links ELSE None)} :
    \E page_files \in {IF filters.extensions # <<>>
                       THEN filter_by_extensions(page_links, filters.extensions)
                       ELSE <<>>} :
        /\ files_found' = files_found \o page_files
        /\ all_links' = all_links \o filtered_page_links
        /\ total_links_found' = total_links_found + Len(filtered_page_links)
        /\ to_visit' = to_visit \o NewFrontier(filtered_page_links, current[2])
        /\ all_pages' = Append(all_pages,
                               page_data(current[1], current[2], page_links, page_files))
        /\ pc' = "loop"
        /\ UNCHANGED <<options, visited, total_pages_crawled, current, warnings,
                       output, direct, probes>>

\* The rest of an iteration once the response is there
ProcessPage(response) ==
    \E page_links \in {extract_links_from_page(response, current[1], base_domain,
                                               include_subdomains)} :
    \E filtered_page_links \in
            {filter_links(page_links, filters.internal_only, filters.external_only,
                          filters.subdomains_only, filters.extensions,
                          filters.filter_types, unique_only,
                          IF unique_only THEN all_links ELSE None)} :
    \E page_files \in {IF filters.extensions # <<>>
                       THEN filter_by_extensions(page_links, filters.extensions)
                       ELSE <<>>} :
        /\ files_found' = files_found \o page_files
        /\ all_links' = all_links \o filtered_page_links
        /\ total_links_found' = total_links_found + Len(filtered_page_links)
        /\ to_visit' = to_visit \o NewFrontier(page_links, current[2])
        /\ all_pages' = Append(all_pages,
                               page_data(current[1], current[2], page_links, page_files))
        /\ pc' = "loop"
        /\ UNCHANGED <<options, visited, total_pages_crawled, current, warnings,
                       output, direct, probes>>

\* Mutant: the handler records a page for the URL that failed
CrawlFailed_RecordsPage ==
    /\ warnings' = Append(warnings, current[1])
    /\ all_pages' = Append(all_pages, page_data(current[1], current[2], <<>>, <<>>))
    /\ pc' = "loop"
    /\ UNCHANGED <<options, visited, to_visit, all_links, total_pages_crawled,
                   total_links_found, files_found, current, output, direct, probes>>

\* The handler of the iteration: warn and go on with the next item
CrawlFailed ==
    /\ warnings' = Append(warnings, current[1])
    /\ pc' = "loop"
    /\ UNCHANGED <<options, crawl, current, output, direct, probes>>

\* fetcher_class.get (plain mode) or fetcher_class.fetch (--js) answers
FetchSucceeds ==
    /\ pc = "fetch"
    /\ requests' = Append(requests, current[1])
    /\ ProcessPage(Site(current[1]))

\* fetcher_class.get raises in plain mode
FetchFails ==
    /\ pc = "fetch"
    /\ ~javascript
    /\ requests' = Append(requests, current[1])
    /\ CrawlFailed

\* fetcher_class.fetch raises with --js: "Falling back..."
JsFetchFails ==
    /\ pc = "fetch"
    /\ javascript
    /\ requests' = Append(requests, current[1])
    /\ pc' = "fallback"
    /\ UNCHANGED <<options, crawl, current, warnings, output, direct, probes>>

\* The fallback Fetcher.get answers
FallbackSucceeds ==
    /\ pc = "fallback"
    /\ requests' = Append(requests, current[1])
    /\ ProcessPage(Site(current[1]))

\* The fallback Fetcher.get raises
FallbackFails ==
    /\ pc = "fallback"
    /\ requests' = Append(requests, current[1])
    /\ CrawlFailed

\* The statements after the loop: the validation, the global duplicate removal
\* and the output
Finish ==
    /\ pc = "loop"
    /\ ~LoopCondition
    /\ \E down \in DownHosts :
        \E validated \in
            {IF validate
             THEN validate_links(all_links,
                                 [i \in 1..Len(all_links) |->
                                      Probe(all_links[i].url, down)])
             ELSE all_links} :
        \E links \in {IF unique_only THEN UniqueLinks(validated, {}) ELSE validated} :
            /\ probes' = IF validate THEN probes \o ProbedUrls(all_links) ELSE probes
            /\ all_links' = links
            /\ output' = <<[crawl_info |->
                             [start_url |-> start_url,
                              pages_crawled |-> total_pages_crawled,
                              max_depth |-> depth,
                              total_links |-> Len(links),
                              files_found |-> IF filters.extensions # <<>>
                                              THEN Len(files_found) ELSE 0],
                          pages |-> all_pages,
                          links |-> links]>>
    /\ pc' = "done"
    /\ UNCHANGED <<options, visited, to_visit, all_pages, total_pages_crawled,
                   total_links_found, files_found, current, requests, warnings,
                   direct>>

\* KeyboardInterrupt while the loop runs: `except KeyboardInterrupt` prints
\* "Crawling interrupted by user" and the command returns
Interrupt ==
    /\ pc \in {"loop", "fetch", "fallback"}
    /\ pc' = "interrupted"
    /\ UNCHANGED <<options, crawl, current, requests, warnings, output, direct, probes>>

\* The steps of the command itself: an iteration that is skipped or started, a
\* request that raises or answers, the end of the loop
Program ==
    \/ Skip
    \/ Dequeue
    \/ FetchFails
    \/ JsFetchFails
    \/ FallbackFails
    \/ FetchSucceeds
    \/ FallbackSucceeds
    \/ Finish

\* The interrupt is the user's
Next == Program \/ Interrupt

Spec == Init /\ [][Next]_vars

\* The command is single-threaded and synchronous: it runs on until it returns
\* or is interrupted, and every request returns or raises
LiveSpec == Spec /\ WF_vars(Program)

(***************************************************************************)
(* The `links` command, run on the seed URL                                *)
(***************************************************************************)

\* The filter options a `links` run is started with
LinksFilterOptions ==
    FilterOptions \cup
    { [internal_only |-> FALSE, external_only |-> FALSE, subdomains_only |-> FALSE,
       extensions |-> <<"pdf">>, filter_types |-> <<"documents">>],
      [internal_only |-> FALSE, external_only |-> TRUE, subdomains_only |-> FALSE,
       extensions |-> <<>>, filter_types |-> <<"pages">>] }

\* The state of `links` before its request
LinksInit ==
    /\ depth = 0
    /\ max_pages = 0
    /\ javascript \in BOOLEAN
    /\ include_subdomains \in BOOLEAN
    /\ unique_only \in BOOLEAN
    /\ validate \in BOOLEAN
    /\ filters \in LinksFilterOptions
    /\ visited = {}
    /\ to_visit = <<>>
    /\ all_pages = <<>>
    /\ all_links = <<>>
    /\ total_pages_crawled = 0
    /\ total_links_found = 0
    /\ files_found = <<>>
    /\ current = None
    /\ pc = "links_fetch"
    /\ requests = <<>>
    /\ probes = <<>>
    /\ warnings = <<>>
    /\ output = None
    /\ call = None
    /\ result = None

\* Mutant: `links` does not read the scope flags
LinksFiltered_NoScope(links) ==
    LET by_type == IF filters.filter_types # <<>>
                   THEN filter_by_types(links, filters.filter_types)
                   ELSE links
    IN  IF filters.extensions # <<>>
        THEN filter_by_extensions(by_type, filters.extensions)
        ELSE by_type

\* The filter stages of `links`: scope, then type, then extension
LinksFiltered(links) ==
    LET scoped == ScopeFilter(links, filters.internal_only, filters.external_only,
                              filters.subdomains_only)
        by_type == IF filters.filter_types # <<>>
                   THEN filter_by_types(scoped, filters.filter_types)
                   ELSE scoped
    IN  IF filters.extensions # <<>>
        THEN filter_by_extensions(by_type, filters.extensions)
        ELSE by_type

\* The statements of `links` once the response is there
LinksProcess(response) ==
    \E down \in DownHosts :
    \E extracted \in {extract_links_from_page(response, start_url, base_domain,
                                              include_subdomains)} :
    \E unique_links \in {IF unique_only THEN UniqueLinks(LinksFiltered(extracted), {})
                         ELSE LinksFiltered(extracted)} :
        /\ all_links' = extracted
        /\ probes' = IF validate THEN probes \o ProbedUrls(unique_links) ELSE probes
        /\ output' = <<IF validate
                       THEN validate_links(unique_links,
                                           [i \in 1..Len(unique_links) |->
                                                Probe(unique_links[i].url, down)])
                       ELSE unique_links>>
        /\ pc' = "links_done"
        /\ UNCHANGED <<options, visited, to_visit, all_pages, total_pages_crawled,
                       total_links_found, files_found, current, warnings, direct>>

\* `except Exception`: the error is printed and the command exits with 1
LinksFailed ==
    /\ pc' = "links_error"
    /\ UNCHANGED <<options, crawl, current, probes, warnings, output, direct>>

\* fetcher_class.get (plain mode) or fetcher_class.fetch (--js) answers
LinksFetchSucceeds ==
    /\ pc = "links_fetch"
    /\ requests' = Append(requests, start_url)
    /\ LinksProcess(Site(start_url))

\* fetcher_class.get raises in plain mode
LinksFetchFails ==
    /\ pc = "links_fetch"
    /\ ~javascript
    /\ requests' = Append(requests, start_url)
    /\ LinksFailed

\* fetcher_class.fetch raises in --js mode: fall back to Fetcher.get
LinksJsFetchFails ==
    /\ pc = "links_fetch"
    /\ javascript
    /\ requests' = Append(requests, start_url)
    /\ pc' = "links_fallback"
    /\ UNCHANGED <<options, crawl, current, probes, warnings, output, direct>>

\* The fallback Fetcher.get answers
LinksFallbackSucceeds ==
    /\ pc = "links_fallback"
    /\ requests' = Append(requests, start_url)
    /\ LinksProcess(Site(start_url))

\* The fallback Fetcher.get raises
LinksFallbackFails ==
    /\ pc = "links_fallback"
    /\ requests' = Append(requests, start_url)
    /\ LinksFailed

LinksNext ==
    \/ LinksFetchFails
    \/ LinksJsFetchFails
    \/ LinksFallbackFails
    \/ LinksFetchSucceeds
    \/ LinksFallbackSucceeds

LinksSpec == LinksInit /\ [][LinksNext]_vars

\* A run of either command
CommandInit == Init \/ LinksInit

CommandNext == Next \/ LinksNext

CommandSpec == CommandInit /\ [][CommandNext]_vars

(***************************************************************************)
(* extract_links_from_page called on its own                               *)
(***************************************************************************)

\* The hrefs of the pages handed to the function
Hrefs ==
    { NoHref,
      [NoHref EXCEPT !.ws = TRUE],                                 \* " "
      Rel(<<"/", "a">>),
      [Rel(<<"b">>) EXCEPT !.ws = TRUE],                           \* " b "
      FragOnly(<<"top">>),
      [FragOnly(<<"top">>) EXCEPT !.ws = TRUE],                    \* " #top"
      Opaque("mailto", <<"m">>),
      [Opaque("javascript", <<"v">>) EXCEPT !.ws = TRUE],          \* " javascript:v"
      Opaque("JavaScript", <<"v">>),
      Opaque("http", <<"foo">>),                                   \* "http:foo"
      Abs("ftp", OtherHost, <<"/", "f">>),
      Abs("HTTP", OtherHost, <<"/">>),
      Abs("", OtherHost, <<"/", "x">>),                            \* "//o.c/x"
      Abs("https", SubHost, <<"/">>),
      Abs("https", WwwHost, <<"/", "a">>),
      [NoHref EXCEPT !.bad = TRUE, !.scheme = "http"] }            \* "http://[o"

\* The <a> elements of those pages
Elements ==
    {Anchor(h, "t") : h \in Hrefs}
    \cup {Broken(Rel(<<"/", "a">>)),
          [Anchor(Rel(<<"/", "a">>), "u") EXCEPT !.region = "navigation"]}

\* The pages of at most MaxAnchors elements
Responses ==
    {[anchors |-> a] : a \in UNION {[1..n -> Elements] : n \in 0..MaxAnchors}}

\* The pages the links are found on
CurrentUrls ==
    {start_url, [PageUrl(BaseHost, <<"/", "d", "/", "p">>) EXCEPT !.scheme = "http"]}

\* The state of the command when none is running
Idle ==
    /\ depth = 0
    /\ max_pages = 0
    /\ javascript = FALSE
    /\ include_subdomains = FALSE
    /\ unique_only = FALSE
    /\ validate = FALSE
    /\ filters \in {f \in FilterOptions : ~f.internal_only /\ f.extensions = <<>>
                                          /\ f.filter_types = <<>>}
    /\ visited = {}
    /\ to_visit = <<>>
    /\ all_pages = <<>>
    /\ all_links = <<>>
    /\ total_pages_crawled = 0
    /\ total_links_found = 0
    /\ files_found = <<>>
    /\ current = None
    /\ pc = "idle"
    /\ requests = <<>>
    /\ probes = <<>>
    /\ warnings = <<>>
    /\ output = None

\* The hosts site.com and other.com
SiteCom == <<"s", "i", "t", "e", ".", "c", "o", "m">>
OtherCom == <<"o", "t", "h", "e", "r", ".", "c", "o", "m">>

\* A seed page of site.com with the anchors "/about", "https://other.com/x",
\* "#frag" and "mailto:a@b.com"
SeedPage ==
    [anchors |-> << Anchor(Rel(<<"/", "about">>), "t"),
                    Anchor(Abs("https", OtherCom, <<"/", "x">>), "t"),
                    Anchor(FragOnly(<<"frag">>), "t"),
                    Anchor(Opaque("mailto", <<"a@b", ".", "com">>), "t") >>]

\* The call for the seed page
SeedCalls ==
    {<<[response |-> SeedPage, current_url |-> PageUrl(SiteCom, <<"/">>),
        base_domain |-> SiteCom, include_subdomains |-> s]>> : s \in BOOLEAN}

\* The function is about to be called with arguments drawn from the sets above
ExtractInit ==
    /\ Idle
    /\ call \in {<<[response |-> r, current_url |-> u, base_domain |-> b,
                    include_subdomains |-> s]>> :
                     r \in Responses, u \in CurrentUrls, b \in {BaseHost, WwwHost},
                     s \in BOOLEAN}
                 \cup SeedCalls
    /\ result = None

\* The call returns
ExtractReturn ==
    /\ call # None
    /\ result = None
    /\ result' = <<extract_links_from_page(call[1].response, call[1].current_url,
                                           call[1].base_domain,
                                           call[1].include_subdomains)>>
    /\ UNCHANGED <<options, crawl, current, pc, requests, warnings, output, call, probes>>

ExtractNext == ExtractReturn

ExtractSpec == ExtractInit /\ [][ExtractNext]_vars

(***************************************************************************)
(* The start of a command: `links`, `scrape` and `extract` read their      *)
(* configuration, then send their first request.  call holds the command   *)
(* line: the command, --headers (absent, a JSON object, or text that is    *)
(* not JSON), the rules file of `extract` (a JSON object of rules, a       *)
(* missing file, text that is not JSON, JSON that is not an object of      *)
(* rules) and, for `scrape`, whether --content-only or --selector is set.  *)
(***************************************************************************)

CommandLines ==
    {[command |-> c, headers |-> h, rules |-> "none", content_only |-> FALSE] :
         c \in {"links", "scrape"}, h \in {"absent", "object", "not_json"}}
    \cup {[command |-> "scrape", headers |-> h, rules |-> "none", content_only |-> TRUE] :
              h \in {"absent", "object", "not_json"}}
    \cup {[command |-> "extract", headers |-> h, rules |-> r, content_only |-> FALSE] :
              h \in {"absent", "object", "not_json"},
              r \in {"object", "missing", "not_json", "not_rules"}}

\* open(rules) raises FileNotFoundError, or json.load raises JSONDecodeError
RulesRejected(rules) == rules \in {"missing", "not_json"}

\* json.loads(headers) raises JSONDecodeError
HeadersRejected(headers) == headers = "not_json"

\* The command has been entered
StartInit ==
    /\ depth = 0
    /\ max_pages = 1
    /\ javascript \in BOOLEAN
    /\ include_subdomains = FALSE
    /\ unique_only = FALSE
    /\ validate = FALSE
    /\ filters \in {f \in FilterOptions : ~f.internal_only /\ f.extensions = <<>>
                                          /\ f.filter_types = <<>>}
    /\ visited = {}
    /\ to_visit = <<>>
    /\ all_pages = <<>>
    /\ all_links = <<>>
    /\ total_pages_crawled = 0
    /\ total_links_found = 0
    /\ files_found = <<>>
    /\ current = None
    /\ requests = <<>>
    /\ probes = <<>>
    /\ warnings = <<>>
    /\ output = None
    /\ call \in {<<c>> : c \in CommandLines}
    /\ pc = IF call[1].command = "extract" THEN "rules" ELSE "headers"
    /\ result = None

\* What a step of the start leaves alone
StartFrame == UNCHANGED <<options, crawl, current, probes, warnings, output, direct>>

\* `extract`: open(rules) and json.load; a missing file and text that is not
\* JSON end the command with exit code 1
ReadRules ==
    /\ pc = "rules"
    /\ pc' = IF RulesRejected(call[1].rules) THEN "config_error" ELSE "headers"
    /\ UNCHANGED requests
    /\ StartFrame

\* json.loads(headers) when --headers is given; "Invalid JSON format for
\* headers" ends the command with exit code 1
ParseHeaders ==
    /\ pc = "headers"
    /\ pc' = IF HeadersRejected(call[1].headers) THEN "config_error" ELSE "first_fetch"
    /\ UNCHANGED requests
    /\ StartFrame

\* The first request is answered
FirstFetchSucceeds ==
    /\ pc = "first_fetch"
    /\ requests' = Append(requests, start_url)
    /\ pc' = "fetched"
    /\ StartFrame

\* Where a failed first request leads: the crawl loop of `scrape` warns and goes
\* on, the other commands and the content mode of `scrape` exit with code 1
AfterFailedFetch ==
    IF call[1].command = "scrape" /\ ~call[1].content_only THEN "fetch_warning"
    ELSE "fetch_error"

\* The first request raises in plain mode
FirstFetchFails ==
    /\ pc = "first_fetch"
    /\ ~javascript
    /\ requests' = Append(requests, start_url)
    /\ pc' = AfterFailedFetch
    /\ StartFrame

\* fetcher_class.fetch raises with --js: fall back to Fetcher.get
FirstJsFetchFails ==
    /\ pc = "first_fetch"
    /\ javascript
    /\ requests' = Append(requests, start_url)
    /\ pc' = "first_fallback"
    /\ StartFrame

\* The fallback request is answered
FirstFallbackSucceeds ==
    /\ pc = "first_fallback"
    /\ requests' = Append(requests, start_url)
    /\ pc' = "fetched"
    /\ StartFrame

\* The fallback request raises
FirstFallbackFails ==
    /\ pc = "first_fallback"
    /\ requests' = Append(requests, start_url)
    /\ pc' = AfterFailedFetch
    /\ StartFrame

\* `extract`: the loop over extraction_rules.items() on the fetched page; rules
\* that are not a JSON object raise there, and the command exits with code 1
ApplyRules ==
    /\ pc = "fetched"
    /\ call[1].command = "extract"
    /\ pc' = IF call[1].rules = "not_rules" THEN "rules_error" ELSE "extracted"
    /\ UNCHANGED requests
    /\ StartFrame

StartNext ==
    \/ ReadRules
    \/ ParseHeaders
    \/ FirstFetchSucceeds
    \/ FirstFetchFails
    \/ FirstJsFetchFails
    \/ FirstFallbackSucceeds
    \/ FirstFallbackFails
    \/ ApplyRules

StartSpec == StartInit /\ [][StartNext]_vars

(***************************************************************************)
(* is_subdomain_of and is_same_or_subdomain called on their own            *)
(***************************************************************************)

\* The host names the two functions are called with
Domains ==
    { BaseHost, WwwHost, SubHost, OtherHost,
      Www \o OtherHost,                          \* www.o.c
      Www \o SubHost,                            \* www.x.s.c
      <<"x", ".">> \o WwwHost,                   \* x.www.s.c
      <<"x">> \o WwwHost,                        \* xwww.s.c
      Www \o WwwHost,                            \* www.www.s.c
      <<"x">> \o BaseHost }                      \* xs.c

\* The two functions are about to be called with a host name and a base domain
DomainInit ==
    /\ Idle
    /\ call \in {<<[domain |-> d, base_domain |-> b]>> : d \in Domains, b \in Domains}
    /\ result = None

\* Both calls return
DomainReturn ==
    /\ call # None
    /\ result = None
    /\ result' = <<[is_subdomain_of |->
                        is_subdomain_of(call[1].domain, call[1].base_domain),
                    is_same_or_subdomain |->
                        is_same_or_subdomain(call[1].domain, call[1].base_domain)]>>
    /\ UNCHANGED <<options, crawl, current, pc, requests, warnings, output, call, probes>>

DomainNext == DomainReturn

DomainSpec == DomainInit /\ [][DomainNext]_vars

(***************************************************************************)
(* get_link_type called on its own                                         *)
(***************************************************************************)

\* The URLs the function is called with
TypedUrls ==
    { [scheme |-> sc, netloc |-> BaseHost, path |-> p, query |-> q, fragment |-> <<>>] :
          sc \in {"http", "https"},
          p \in { <<"/">>, <<"/", "a">>, <<"/", "api">>, <<"/", "API", "/", "a">>,
                  <<"/", "a", ".", "pdf">>, <<"/", "i", ".", "png">>,
                  <<"/", "api", "/", "f", ".", "zip">>, <<"/", "a", ".", "zzz">>,
                  <<"/", "api", ".", "zzz">>, <<"/", "a", ".", "PDF">> },
          q \in { <<>>, <<"q=1">>, <<"q=1", "?", "r=2">> } }

\* The function is about to be called with a URL
TypeInit ==
    /\ Idle
    /\ call \in {<<[url |-> u]>> : u \in TypedUrls}
    /\ result = None

\* The call returns
TypeReturn ==
    /\ call # None
    /\ result = None
    /\ result' = <<get_link_type(call[1].url)>>
    /\ UNCHANGED <<options, crawl, current, pc, requests, warnings, output, call, probes>>

TypeNext == TypeReturn

TypeSpec == TypeInit /\ [][TypeNext]_vars

(***************************************************************************)
(* validate_links called on its own                                        *)
(***************************************************************************)

\* What a probe can yield: Fetcher.get raises, or it answers with a status (0
\* when the response carries neither status_code nor status)
Outcomes ==
    {[raised |-> TRUE, status |-> 0]}
    \cup {[raised |-> FALSE, status |-> c] : c \in {0, 200, 399, 400, 404}}

\* The links handed to validate_links
ProbedLinks ==
    LET extracted == extract_links_from_page(Site(start_url), start_url, base_domain, FALSE)
    IN  {extracted[i] : i \in 1..Len(extracted)}

\* validate_links is about to be called with a list of links; outcomes[i] is
\* what the probe of the i-th link will yield
ValidateInit ==
    /\ Idle
    /\ call \in UNION {{<<[links |-> l, outcomes |-> o]>> :
                             l \in [1..n -> ProbedLinks], o \in [1..n -> Outcomes]} :
                        n \in 0..MaxLinks}
    /\ result = None

\* The call returns
ValidateReturn ==
    /\ call # None
    /\ result = None
    /\ result' = <<validate_links(call[1].links, call[1].outcomes)>>
    /\ probes' = probes \o ProbedUrls(call[1].links)
    /\ UNCHANGED <<options, crawl, current, pc, requests, warnings, output, call>>

ValidateNext == ValidateReturn

ValidateSpec == ValidateInit /\ [][ValidateNext]_vars

(***************************************************************************)
(* The pacing of validate_links                                            *)
(***************************************************************************)

\* A probe raises or answers
PacedOutcomes == {[raised |-> TRUE, status |-> 0], [raised |-> FALSE, status |-> 200]}

\* validate_links is about to be called with a list of links whose probes will
\* yield these outcomes
PaceInit ==
    /\ Idle
    /\ call \in UNION {{<<[outcomes |-> o]>> : o \in [1..n -> PacedOutcomes]} :
                        n \in 0..MaxProbes}
    /\ result = None

\* The call returns; result holds the probes and pauses in the order they
\* happened
PaceReturn ==
    /\ call # None
    /\ result = None
    /\ result' = <<ValidationEvents(call[1].outcomes, 0)>>
    /\ UNCHANGED <<options, crawl, current, pc, requests, warnings, output, call, probes>>

PaceNext == PaceReturn

PaceSpec == PaceInit /\ [][PaceNext]_vars

(***************************************************************************)
(* The comments of a crawl with --include-comments: the part of an         *)
(* iteration of the loop of `scrape` that extracts and filters the         *)
(* comments of the page.  A comment is held by its type; call holds the    *)
(* --comment-type option ("" when absent) and what extract_all_comments    *)
(* finds on each page fetched; result holds the variable comment_type and  *)
(* the comments kept in page_data for the pages processed so far.          *)
(***************************************************************************)

\* What extract_all_comments returns for a page: the HTML comments, then the
\* single-line and the multi-line JavaScript comments
CommentPages ==
    { <<>>,
      <<"html">>,
      <<"html", "javascript_single">>,
      <<"html", "javascript_multi">>,
      <<"javascript_single", "javascript_multi">>,
      <<"html", "javascript_single", "javascript_multi">> }

\* The values of --comment-type
CommentTypeOptions == {"", "html", "javascript", "js_single", "js_multi"}

\* type_filter: the comment types a value of comment_type stands for
type_filter(comment_type_) ==
    CASE comment_type_ = "javascript" -> {"javascript_single", "javascript_multi"}
      [] comment_type_ = "js_single" -> {"javascript_single"}
      [] comment_type_ = "js_multi" -> {"javascript_multi"}
      [] comment_type_ = "html" -> {"html"}
      [] OTHER -> {comment_type_}

\* page_comments after the type filter; no filter when comment_type is empty
FilteredComments(page_comments, comment_type_) ==
    IF comment_type_ # ""
    THEN SelectSeq(page_comments, LAMBDA c : c \in type_filter(comment_type_))
    ELSE page_comments

\* The crawl is about to process its first page
CommentsInit ==
    /\ Idle
    /\ call \in UNION {{<<[comment_type |-> t, pages |-> ps]>> :
                             t \in CommentTypeOptions, ps \in [1..n -> CommentPages]} :
                        n \in 0..MaxCommentPages}
    /\ result = <<[comment_type |-> call[1].comment_type, pages |-> <<>>]>>

\* The comments of the next page: filtered by type, stored in page_data, and
\* counted by type in a loop whose variable is comment_type
CommentsOfPage ==
    /\ call # None
    /\ result # None
    /\ Len(result[1].pages) < Len(call[1].pages)
    /\ \E page_comments \in {FilteredComments(call[1].pages[Len(result[1].pages) + 1],
                                               result[1].comment_type)} :
          result' = <<[comment_type |-> IF page_comments # <<>>
                                        THEN page_comments[Len(page_comments)]
                                        ELSE result[1].comment_type,
                       pages |-> Append(result[1].pages, page_comments)]>>
    /\ UNCHANGED <<options, crawl, current, pc, requests, warnings, output, call, probes>>

CommentsNext == CommentsOfPage

CommentsSpec == CommentsInit /\ [][CommentsNext]_vars

(***************************************************************************)
(* filter_links called on its own                                          *)
(***************************************************************************)

\* A page of links to files and pages
FilesPage ==
    [anchors |-> << Anchor(Rel(<<"/", "f", ".", "pdf">>), "t"),
                    Anchor(Rel(<<"/", "F", ".", "PDF">>), "t"),
                    Anchor(Rel(<<"/", "i", ".", "png">>), "t"),
                    Anchor([Rel(<<"/", "d", ".", "pdf">>) EXCEPT !.query = <<"v">>], "t"),
                    Anchor(Rel(<<"/", "pdf", "/", "i", ".", "png">>), "t"),
                    Anchor(Rel(<<"/", "a">>), "t"),
                    Anchor(Abs("https", OtherHost, <<"/", "g", ".", "pdf">>), "t") >>]

\* The links the lists are made of
FileLinks ==
    LET extracted == extract_links_from_page(FilesPage, start_url, base_domain, FALSE)
    IN  {extracted[i] : i \in 1..Len(extracted)}

\* The lists of at most MaxLinks links
LinkLists == UNION {[1..n -> FileLinks] : n \in 0..MaxLinks}

\* The settings of --extensions and --filter, and of the scope flags
FilterSettings ==
    { [internal_only |-> io, external_only |-> FALSE, subdomains_only |-> FALSE,
       extensions |-> e, filter_types |-> t] :
          io \in BOOLEAN,
          e \in {<<>>, <<"pdf">>, <<"pdf", "png">>},
          t \in {<<>>, <<"images">>, <<"documents">>, <<"pdf">>, <<"pages">>} }

\* filter_links is about to be called with the options of the run
FilterInit ==
    /\ depth = 0
    /\ max_pages = 0
    /\ javascript = FALSE
    /\ include_subdomains = FALSE
    /\ unique_only \in BOOLEAN
    /\ validate = FALSE
    /\ filters \in FilterSettings
    /\ visited = {}
    /\ to_visit = <<>>
    /\ all_pages = <<>>
    /\ all_links = <<>>
    /\ total_pages_crawled = 0
    /\ total_links_found = 0
    /\ files_found = <<>>
    /\ current = None
    /\ pc = "idle"
    /\ requests = <<>>
    /\ probes = <<>>
    /\ warnings = <<>>
    /\ output = None
    /\ call \in {<<[links |-> l]>> : l \in LinkLists}
    /\ result = None

\* The call returns
FilterReturn ==
    /\ call # None
    /\ result = None
    /\ result' = <<filter_links(call[1].links, filters.internal_only,
                                filters.external_only, filters.subdomains_only,
                                filters.extensions, filters.filter_types,
                                unique_only, None)>>
    /\ UNCHANGED <<options, crawl, current, pc, requests, warnings, output, call, probes>>

FilterNext == FilterReturn

FilterSpec == FilterInit /\ [][FilterNext]_vars

(***************************************************************************)
(* Properties of the crawl loop                                            *)
(***************************************************************************)

\* The elements of a list
Range(s) == {s[i] : i \in 1..Len(s)}

\* The URLs waiting in the frontier
FrontierUrls == {to_visit[i][1] : i \in 1..Len(to_visit)}

\* C1: the crawl loop terminates for every depth, page bound and pattern of
\* fetch outcomes: unless the user interrupts it, it is eventually left with the
\* frontier empty or with max_pages URLs visited
C1_Termination ==
    <>(\/ pc = "interrupted"
       \/ /\ pc = "done"
          /\ (to_visit = <<>> \/ Cardinality(visited) >= max_pages))

\* C1, witness: a finished crawl of a site with cycles that was stopped by the
\* page bound while URLs already visited were still waiting in the frontier
C1_Witness ==
    /\ pc = "done"
    /\ Cardinality(visited) >= 3
    /\ FrontierUrls \cap visited # {}

\* C2: the number of visited URLs never exceeds max_pages, every request is for
\* a visited URL, and once max_pages URLs are visited an iteration starts no
\* other request
C2_PageBound ==
    /\ Cardinality(visited) <= max_pages
    /\ total_pages_crawled <= max_pages
    /\ Range(requests) \subseteq visited
    /\ Cardinality(Range(requests)) <= max_pages

\* C2, witness: the page bound is reached while the frontier still holds URLs
\* that were never visited
C2_Witness ==
    /\ pc = "done"
    /\ max_pages >= 2
    /\ Cardinality(visited) = max_pages
    /\ FrontierUrls \ visited # {}

\* C3: a URL is processed by at most one iteration: visited never loses a URL,
\* an iteration starts only for a URL not yet visited and marks exactly that
\* URL, and a request is sent only for the URL of the running iteration
C3_ProcessedOnce ==
    [][ /\ visited \subseteq visited'
        /\ current' # current =>
              /\ current'[1] \notin visited
              /\ visited' = visited \cup {current'[1]}
              /\ total_pages_crawled' = total_pages_crawled + 1
        /\ current' = current => visited' = visited
        /\ requests' # requests =>
              /\ requests' = Append(requests, current[1])
              /\ current' = current
        /\ total_pages_crawled = Cardinality(visited) ]_vars

\* C3, witness: a URL whose fetch failed is again at the front of the frontier
\* (it was enqueued twice) and is dropped there
C3_Witness ==
    /\ pc = "loop"
    /\ LoopCondition
    /\ Head(to_visit)[1] \in Range(warnings)

\* The links of the seed page that pass the filters of the run
SeedLinks ==
    filter_links(extract_links_from_page(Site(start_url), start_url, base_domain,
                                         include_subdomains),
                 filters.internal_only, filters.external_only, filters.subdomains_only,
                 filters.extensions, filters.filter_types, unique_only, None)

\* C4: with max_depth = 0 only the seed is visited and requested, nothing is ever
\* appended to the frontier, and the links of the seed page are collected
C4_DepthZero ==
    depth = 0 =>
        /\ visited \subseteq {start_url}
        /\ Range(requests) \subseteq {start_url}
        /\ to_visit \in {<<>>, << <<start_url, 0>> >>}
        /\ (pc = "done" /\ max_pages >= 1) => visited = {start_url}
        /\ all_pages # <<>> =>
              \A i \in 1..Len(SeedLinks) :
                  \E j \in 1..Len(all_links) : all_links[j].url = SeedLinks[i].url

\* C4, witness: a finished crawl of depth 0 whose seed page held links
C4_Witness ==
    /\ depth = 0
    /\ pc = "done"
    /\ visited = {start_url}
    /\ Len(all_links) >= 3

\* C5: with max_pages = 1 the seed is the only page ever requested, for every
\* depth, and a finished crawl has requested it
C5_OnePage ==
    max_pages = 1 =>
        /\ Range(requests) \subseteq {start_url}
        /\ visited \subseteq {start_url}
        /\ pc = "done" => (visited = {start_url} /\ Range(requests) = {start_url})

\* C5, witness: a finished crawl with max_pages = 1 and depth 2 whose frontier
\* still holds the links of the seed page
C5_Witness ==
    /\ max_pages = 1
    /\ depth = 2
    /\ pc = "done"
    /\ Len(to_visit) >= 2

\* C6: the step that handles a failed fetch leaves the link list, the page
\* list, the file list and the frontier as they were and returns to the head of
\* the loop; no page record and no link comes from a URL that failed
C6_FailureContributesNothing ==
    [][ /\ warnings' # warnings =>
              /\ warnings' = Append(warnings, current[1])
              /\ all_links' = all_links
              /\ all_pages' = all_pages
              /\ files_found' = files_found
              /\ to_visit' = to_visit
              /\ pc' = "loop"
        /\ \A i \in 1..Len(all_pages) : all_pages[i].url \notin Range(warnings)
        /\ \A i \in 1..Len(all_links) :
              all_links[i].found_on_page \notin Range(warnings) ]_vars

\* C6, witness: after a failed fetch the crawl went on and processed another page
C6_Witness ==
    /\ warnings # <<>>
    /\ Len(all_pages) >= 2
    /\ \E i \in 1..Len(requests) :
          /\ requests[i] \in Range(warnings)
          /\ \E j \in (i + 1)..Len(requests) : requests[j] \notin Range(warnings)

\* C7: after an interrupt the pages and links accumulated so far are emitted
\* through the output step
C7_InterruptEmits ==
    pc = "interrupted" =>
        /\ output # None
        /\ output[1].links = all_links
        /\ output[1].pages = all_pages

\* A leading "www." removed, once
StripLeadingWww(d) == IF StartsWith(d, Www) THEN SubSeq(d, Len(Www) + 1, Len(d)) ELSE d

\* d is a strict subdomain of base: different from it and ending with "." + base
IsStrictSubdomain(d, base) ==
    /\ StripLeadingWww(d) # StripLeadingWww(base)
    /\ EndsWith(StripLeadingWww(d), <<".">> \o StripLeadingWww(base))

(***************************************************************************)
(* Properties of link extraction                                           *)
(***************************************************************************)

\* The links the call returned
Returned == result[1]

\* The hrefs of the page as written, trimmed
TrimmedHrefs ==
    {Strip(call[1].response.anchors[j].href) :
         j \in 1..Len(call[1].response.anchors)}

\* An href no Link may come from: it starts with "#", "mailto:" or
\* "javascript:", or it names a scheme other than http and https in any case
IsExcludedHref(h) ==
    \/ StartsWithHash(h)
    \/ StartsWithScheme(h, "mailto")
    \/ StartsWithScheme(h, "javascript")
    \/ Lower(h.scheme) \notin {"", "http", "https"}

\* C8: every link extract_links_from_page returns has a URL with a scheme, which
\* is http or https, and no link comes from an href that after trimming starts
\* with "#", "mailto:" or "javascript:" or resolves to another scheme, in
\* whatever case the scheme is written
C8_HttpLinksOnly ==
    result # None =>
        \A i \in 1..Len(Returned) :
            /\ Returned[i].url.scheme # ""
            /\ ParsedScheme(Returned[i].url) \in {"http", "https"}
            /\ ~IsExcludedHref(Returned[i].original_href)
            /\ \A h \in TrimmedHrefs : IsExcludedHref(h) => Returned[i].original_href # h

\* C8, witness: a page with a "JavaScript:" href and an href written with
\* white space around it, which alone gave a link
C8_Witness ==
    /\ result # None
    /\ Len(Returned) = 1
    /\ Returned[1].original_href \in TrimmedHrefs
    /\ \E j \in 1..Len(call[1].response.anchors) :
          call[1].response.anchors[j].href.scheme = "JavaScript"
    /\ \E j \in 1..Len(call[1].response.anchors) :
          /\ call[1].response.anchors[j].href.ws
          /\ Strip(call[1].response.anchors[j].href) = Returned[1].original_href

\* The two hosts are the same domain, a leading "www." set aside
SameDomain(d, base) == StripLeadingWww(d) = StripLeadingWww(base)

\* C9: a link is internal exactly when its domain is the base domain (a leading
\* "www." set aside) or include_subdomains is enabled and its domain is a strict
\* subdomain of the base domain; without include_subdomains a link to a strict
\* subdomain has is_subdomain set and is_internal not set
C9_InternalIffSameOrIncluded ==
    result # None =>
        \A i \in 1..Len(Returned) :
            /\ Returned[i].is_internal <=>
                  \/ SameDomain(Returned[i].domain, call[1].base_domain)
                  \/ /\ call[1].include_subdomains
                     /\ IsStrictSubdomain(Returned[i].domain, call[1].base_domain)
            /\ (/\ ~call[1].include_subdomains
                /\ IsStrictSubdomain(Returned[i].domain, call[1].base_domain))
               => (Returned[i].is_subdomain /\ ~Returned[i].is_internal)

(***************************************************************************)
(* Properties of the crawl scope                                           *)
(***************************************************************************)

\* C10: with include_subdomains disabled no URL on a strict subdomain of the base
\* domain is put in the frontier or requested
C10_NoSubdomainCrawl ==
    ~include_subdomains =>
        \A u \in FrontierUrls \cup Range(requests) :
            ~IsStrictSubdomain(u.netloc, base_domain)

(***************************************************************************)
(* Properties of the frontier and of the emitted list                      *)
(***************************************************************************)

\* The pages whose links were extracted
ProcessedPages == {all_pages[i].url : i \in 1..Len(all_pages)}

\* The links extraction finds on page p in this run
LinksOn(p) == extract_links_from_page(Site(p), p, base_domain, include_subdomains)

\* The links of page p that pass the filters of the run
FilteredLinksOn(p) ==
    filter_links(LinksOn(p), filters.internal_only, filters.external_only,
                 filters.subdomains_only, filters.extensions, filters.filter_types,
                 unique_only, None)

\* C11: every URL in the frontier or requested, the seed aside, has a path
\* without a file extension and is the URL of a link classified internal on a
\* processed page; a link whose path has a file extension is never in the
\* frontier and never requested, and is collected when it passes the filters
C11_FilesNotCrawled ==
    /\ \A u \in (FrontierUrls \cup Range(requests)) \ {start_url} :
            /\ PathSuffix(u.path) = <<>>
            /\ \E p \in ProcessedPages : \E l \in Range(LinksOn(p)) :
                    l.url = u /\ l.is_internal
    /\ \A p \in ProcessedPages : \A l \in Range(LinksOn(p)) :
            PathSuffix(l.url.path) # <<>> =>
                /\ l.url \notin FrontierUrls \cup Range(requests)
                /\ l \in Range(FilteredLinksOn(p)) =>
                       \E i \in 1..Len(all_links) : all_links[i].url = l.url

\* C11, witness: a finished crawl that followed page links and collected the
\* link to a file found on the seed page
C11_Witness ==
    /\ pc = "done"
    /\ Cardinality(Range(requests)) >= 2
    /\ \E i \in 1..Len(all_links) :
          /\ PathSuffix(all_links[i].url.path) # <<>>
          /\ all_links[i].is_internal

\* The link list a finished command handed to output_results
EmittedLinks == IF pc = "done" THEN output[1].links ELSE output[1]

\* The list the uniqueness pass of the command is applied to
BeforeUnique == IF pc = "loop" THEN all_links ELSE LinksFiltered(all_links)

\* What extraction put in a link
Core(link) ==
    [url |-> link.url, text |-> link.text, source |-> link.source,
     original_href |-> link.original_href, found_on_page |-> link.found_on_page]

\* The positions of s that hold the first link of a URL
FirstIndices(s) == {i \in 1..Len(s) : \A j \in 1..(i - 1) : s[j].url # s[i].url}

\* The elements of s at the positions in I, in the order of s
KeepAt(s, I) ==
    [k \in 1..Cardinality(I) |->
        s[CHOOSE i \in I : Cardinality({j \in I : j < i}) = k - 1]]

CallAnchors == call[1].response.anchors

\* The positions of the readable elements whose trimmed href is h
AnchorsWith(h) ==
    {j \in 1..Len(CallAnchors) : CallAnchors[j].ok /\ Strip(CallAnchors[j].href) = h}

\* C13: an href carried by several anchors of the page gives exactly one link,
\* with the text and the source of the first of these anchors
C13_FirstAnchorWins ==
    result # None =>
        \A i \in 1..Len(Returned) :
            \A with \in {AnchorsWith(Returned[i].original_href)} :
                with # {} =>
                    /\ \A k \in 1..Len(Returned) :
                           Returned[k].original_href = Returned[i].original_href
                               => k = i
                    /\ \A first \in {j \in with : \A m \in with : j <= m} :
                           /\ Returned[i].text = CallAnchors[first].text
                           /\ Returned[i].source = CallAnchors[first].region

\* The link passes the extension filter of the run on its own
PassesExtensions(link) ==
    filter_by_extensions(<<link>>, filters.extensions) = <<link>>

\* The link passes the type filter of the run on its own
PassesTypes(link) == filter_by_types(<<link>>, filters.filter_types) = <<link>>

\* C14: the extension filter followed by the type filter keeps exactly the
\* links that pass each of the two filters on their own, in their input order,
\* and the type filter followed by the extension filter, the order of `links`,
\* gives the same list
C14_FiltersIntersect ==
    (/\ result # None
     /\ ~filters.internal_only
     /\ filters.extensions # <<>>
     /\ filters.filter_types # <<>>) =>
        \A links \in {call[1].links} :
            /\ result[1] = filter_by_types(filter_by_extensions(links, filters.extensions),
                                            filters.filter_types)
            /\ result[1] = KeepAt(links, {i \in 1..Len(links) :
                                             /\ PassesExtensions(links[i])
                                             /\ PassesTypes(links[i])})
            /\ result[1] = LinksFiltered(links)

\* C14, witness: of two links that pass the extension filter the type filter
\* keeps one
C14_Witness ==
    /\ result # None
    /\ ~filters.internal_only
    /\ filters.extensions # <<>>
    /\ filters.filter_types # <<>>
    /\ Len(call[1].links) = 2
    /\ Len(result[1]) = 1
    /\ PassesExtensions(call[1].links[1])
    /\ PassesExtensions(call[1].links[2])
    /\ ~PassesTypes(call[1].links[1])

\* The seed page of site.com has been processed
SeedPageReturned == call \in SeedCalls /\ result # None

\* The two links of the seed page, but for the link type of the second
SeedPageLinks ==
    /\ Len(Returned) = 2
    /\ Returned[1].url = PageUrl(SiteCom, <<"/", "about">>)
    /\ Returned[1].is_internal
    /\ Returned[1].link_type = "page"
    /\ Returned[2].url = PageUrl(OtherCom, <<"/", "x">>)
    /\ ~Returned[2].is_internal

\* C15, as stated: the seed page of site.com with the anchors "/about",
\* "https://other.com/x", "#frag" and "mailto:a@b.com" gives exactly two links,
\* https://site.com/about, internal, of type page, and https://other.com/x,
\* external, of type other
C15_SeedPageScenario ==
    SeedPageReturned => (SeedPageLinks /\ Returned[2].link_type = "other")

\* C15, amended: the seed page gives exactly these two links, in this order,
\* and https://other.com/x, whose path has no file extension, is of type page;
\* "#frag" and "mailto:a@b.com" give no link
C15_SeedPageScenarioPage ==
    SeedPageReturned =>
        /\ SeedPageLinks
        /\ Returned[2].link_type = "page"
        /\ \A i \in 1..Len(Returned) :
               Returned[i].original_href \in {Rel(<<"/", "about">>),
                                              Abs("https", OtherCom, <<"/", "x">>)}

\* C15, witness: the seed page has been processed and gave its two links
C15_Witness == SeedPageReturned /\ Len(Returned) = 2 /\ Returned[2].domain = OtherCom

\* The relationship the two functions give: same, subdomain or external
ComputedRelationship ==
    IF result[1].is_subdomain_of THEN "subdomain"
    ELSE IF result[1].is_same_or_subdomain THEN "same"
    ELSE "external"

\* The reference: only a leading "www." is removed from each side
ReferenceRelationship(d, base) ==
    IF SameDomain(d, base) THEN "same"
    ELSE IF IsStrictSubdomain(d, base) THEN "subdomain"
    ELSE "external"

\* C16: for non-empty host names the relationship given by is_subdomain_of and
\* is_same_or_subdomain is the one of the reference that removes only a leading
\* "www." from each side: same when the stripped names are equal, else
\* subdomain when the stripped name ends with "." and the stripped base, else
\* external
C16_LeadingWwwReference ==
    (result # None /\ call[1].domain # <<>> /\ call[1].base_domain # <<>>) =>
        ComputedRelationship = ReferenceRelationship(call[1].domain, call[1].base_domain)

\* C17: a URL whose path has no file extension and that has a query string, or
\* whose path contains "api", is of type api
C17_QueryOrApiIsApi ==
    result # None =>
        \A url \in {call[1].url} :
            (/\ PathSuffix(LowerSeq(url.path)) = <<>>
             /\ (url.query # <<>> \/ ContainsApi(LowerSeq(url.path)))) =>
                result[1] = "api"

\* C18: validate_links returns the links it was given, in their order, whatever
\* the probes yield; a link whose probe answered carries the status and
\* is_accessible = (status_code < 400), a link whose probe failed carries
\* status_code 0, is_accessible false and an error message; every link is
\* probed, those after a failed probe as well
C18_ValidationNeverAborts ==
    result # None =>
        \A links \in {call[1].links} : \A outcomes \in {call[1].outcomes} :
            /\ Len(result[1]) = Len(links)
            /\ probes = [i \in 1..Len(links) |-> links[i].url]
            /\ \A i \in 1..Len(links) : \A v \in {result[1][i]} :
                   /\ [f \in DOMAIN links[i] |-> v[f]] = links[i]
                   /\ outcomes[i].raised =>
                          /\ v.status_code = 0
                          /\ ~v.is_accessible
                          /\ "error" \in DOMAIN v
                   /\ ~outcomes[i].raised =>
                          /\ v.status_code = outcomes[i].status
                          /\ v.is_accessible = (v.status_code < 400)
                          /\ "error" \notin DOMAIN v

\* C18, witness: the first probe failed and the second link was probed and
\* found accessible
C18_Witness ==
    /\ result # None
    /\ Len(call[1].links) = 2
    /\ call[1].outcomes[1].raised
    /\ ~call[1].outcomes[2].raised
    /\ Len(probes) = 2
    /\ Len(result[1]) = 2
    /\ result[1][2].is_accessible

\* C19: in a crawl with validation and uniqueness enabled the validator probes
\* exactly the links of the final output, each once: as many probes as links
\* emitted, for the same URLs in the same order, and no URL probed twice
C19_ProbesSurvivorsOnce ==
    (pc = "done" /\ output # None /\ validate /\ unique_only) =>
        \A links \in {output[1].links} :
            /\ Len(probes) = Len(links)
            /\ probes = [i \in 1..Len(links) |-> links[i].url]
            /\ \A i, j \in 1..Len(probes) : probes[i] = probes[j] => i = j

\* C20: within one run the page-fetch step requests no URL more than once, with
\* and without --js: a request that failed is not followed by a second request
\* for the same URL
C20_NoSecondRequest ==
    \A i, j \in 1..Len(requests) : requests[i] = requests[j] => i = j

\* The same without --js
C20_NoSecondRequestPlain == ~javascript => C20_NoSecondRequest

\* C22: when one href of the page cannot be processed (its resolution raises),
\* every other anchor that can be read and whose href is well formed, not empty
\* and not excluded still gives a link, those after the malformed one included
C22_MalformedHrefSkippedAlone ==
    result # None =>
        \A j \in 1..Len(CallAnchors) :
            \A h \in {Strip(CallAnchors[j].href)} :
                (/\ CallAnchors[j].ok
                 /\ ~h.bad
                 /\ ~IsEmptyStr(h)
                 /\ ~IsExcludedHref(h)) =>
                    \E i \in 1..Len(Returned) : Returned[i].original_href = h

\* The same on the pages none of whose hrefs is malformed
C22_WellFormedPage ==
    (\A j \in 1..Len(CallAnchors) : ~CallAnchors[j].href.bad) =>
        C22_MalformedHrefSkippedAlone

\* C23: at the end of a crawl there is one page record per visited page: the
\* number of entries of `pages` is the number of visited URLs and is the
\* pages_crawled of crawl_info, whatever fetches succeeded and failed
C23_OneRecordPerVisitedPage ==
    (pc = "done" /\ output # None) =>
        /\ Len(output[1].pages) = Cardinality(visited)
        /\ Len(output[1].pages) = output[1].crawl_info.pages_crawled

\* The same for the crawls in which no fetch failed
C23_WithoutFailedFetch ==
    warnings = <<>> => C23_OneRecordPerVisitedPage

\* The counter and the visited set agree in every crawl
C23_CounterIsVisited ==
    (pc = "done" /\ output # None) =>
        output[1].crawl_info.pages_crawled = Cardinality(visited)

\* The links of the pages from the i-th on, page after page
RECURSIVE LinksOfPages(_, _)
LinksOfPages(pages, i) ==
    IF i > Len(pages) THEN <<>>
    ELSE FilteredLinksOn(pages[i].url) \o LinksOfPages(pages, i + 1)

\* The pages are recorded in the order of their requests, and the master list
\* holds the links of the first page in extraction order, then those of the
\* second, and so on
LinksPageByPage ==
    pc \in {"loop", "fetch", "fallback"} =>
        /\ \A i, j \in 1..Len(all_pages) :
               i < j => \E a, b \in 1..Len(requests) :
                            /\ a < b
                            /\ requests[a] = all_pages[i].url
                            /\ requests[b] = all_pages[j].url
        /\ \A i, j \in 1..Len(all_pages) : i < j => all_pages[i].depth <= all_pages[j].depth
        /\ all_links = LinksOfPages(all_pages, 1)

\* The frontier is sorted by depth and holds nothing less deep than the page
\* fetched last, which is not less deep than the pages recorded before it: the
\* next page fetched is at least as deep as every page fetched so far
DepthsNeverDecrease ==
    /\ \A i, j \in 1..Len(to_visit) : i < j => to_visit[i][2] <= to_visit[j][2]
    /\ current # None =>
           /\ \A i \in 1..Len(to_visit) : to_visit[i][2] >= current[2]
           /\ \A i \in 1..Len(all_pages) : all_pages[i].depth <= current[2]

\* C24: pages are fetched breadth first: the depths of the pages fetched never
\* decrease; links join the master list page by page in the order the pages
\* were fetched, and in extraction order within a page
C24_BreadthFirstOrder == DepthsNeverDecrease /\ LinksPageByPage

\* C24, witness: three pages fetched down to depth 2, and links of two pages
\* in the master list
C24_Witness ==
    /\ pc = "loop"
    /\ Len(all_pages) >= 3
    /\ all_pages[1].depth = 0
    /\ all_pages[Len(all_pages)].depth = 2
    /\ \E i, j \in 1..Len(all_links) :
          i < j /\ all_links[i].found_on_page # all_links[j].found_on_page

\* C25: with uniqueness enabled no two links of the master list have the same
\* URL while the list is accumulated: after each page, and when the loop is
\* left and validation starts
C25_UniqueWhileAccumulated ==
    (unique_only /\ pc \in {"loop", "fetch", "fallback"}) =>
        \A i, j \in 1..Len(all_links) : all_links[i].url = all_links[j].url => i = j

\* C26: whatever the probes yield, at most 10 probes are issued before the
\* first pause and between two pauses: no 11 probes follow one another without
\* a pause
C26_PauseEveryTenProbes ==
    result # None =>
        \A events \in {result[1]} :
            \A k \in 1..(Len(events) - PauseEvery) :
                \E m \in k..(k + PauseEvery) : events[m] = "pause"

\* There is one probe per link, whatever the pauses
C26_OneProbePerLink ==
    result # None =>
        Len(SelectSeq(result[1], LAMBDA e : e = "probe")) = Len(call[1].outcomes)

\* C27: the comments kept on every page are those the type filter the user
\* supplied keeps, all of them when none was supplied: what is kept on page n
\* does not depend on the comments of the pages before it
C27_UserCommentFilterOnEveryPage ==
    \A n \in 1..Len(result[1].pages) :
        result[1].pages[n] = FilteredComments(call[1].pages[n], call[1].comment_type)

\* The same for the first page of the crawl
C27_FirstPage ==
    Len(result[1].pages) >= 1 =>
        result[1].pages[1] = FilteredComments(call[1].pages[1], call[1].comment_type)

\* The number of requests the run sent for URL u
TimesRequested(u) == Cardinality({i \in 1..Len(requests) : requests[i] = u})

\* The links of page u a crawl follows when `seen` are the URLs fetched so far:
\* a function of the page, of include_subdomains and of `seen` alone
Followed(u, d, seen) ==
    LET follow(l) == /\ l.is_internal \/ (include_subdomains /\ l.is_subdomain)
                     /\ PathSuffix(l.url.path) = <<>>
                     /\ l.url \notin seen
        followed == SelectSeq(LinksOn(u), follow)
    IN  [i \in 1..Len(followed) |-> <<followed[i].url, d + 1>>]

\* The requests of a breadth-first crawl that knows the seed, depth, max_pages,
\* include_subdomains, the site and the outcome of each fetch of the run (a URL
\* with a warning failed, a URL requested twice failed in --js mode first), and
\* nothing of the scope flags, the extension and type filters and the
\* uniqueness toggle
RECURSIVE ReferenceRequests(_, _, _)
ReferenceRequests(frontier, seen, reqs) ==
    IF frontier = <<>> \/ Cardinality(seen) >= max_pages THEN reqs
    ELSE LET u == Head(frontier)[1]
             d == Head(frontier)[2]
         IN  IF u \in seen \/ d > depth
             THEN ReferenceRequests(Tail(frontier), seen, reqs)
             ELSE ReferenceRequests(
                      Tail(frontier)
                          \o (IF u \notin Range(warnings) /\ d < depth
                              THEN Followed(u, d, seen \cup {u}) ELSE <<>>),
                      seen \cup {u},
                      reqs \o (IF TimesRequested(u) = 2 THEN <<u, u>> ELSE <<u>>))

\* C28: the pages a crawl fetches, and their order, do not depend on the output
\* filters: the requests of a finished crawl are those of the reference crawl,
\* which is the same for every setting of the scope flags, the extension
\* filter, the type filter and the uniqueness toggle
C28_FetchesIgnoreFilters ==
    (pc = "done" /\ output # None) =>
        requests = ReferenceRequests(<< <<start_url, 0>> >>, {}, <<>>)

\* C28, witness: a finished crawl of three pages or more whose filters dropped
\* links of the pages it fetched
C28_Witness ==
    /\ pc = "done"
    /\ output # None
    /\ Cardinality(Range(requests)) >= 3
    /\ filters.external_only \/ filters.extensions # <<>> \/ filters.filter_types # <<>>
    /\ \E i \in 1..Len(all_pages) :
          Len(FilteredLinksOn(all_pages[i].url)) < all_pages[i].links_on_page

\* Every item of the frontier has a depth between 0 and the maximum depth
FrontierDepthsInRange ==
    \A i \in 1..Len(to_visit) : 0 <= to_visit[i][2] /\ to_visit[i][2] <= depth

\* The items a step appends to the frontier are URLs not visited, the page
\* being processed among the visited
AppendsUnvisitedOnly ==
    Len(to_visit') > Len(to_visit) =>
        \A i \in (Len(to_visit) + 1)..Len(to_visit') :
            /\ to_visit'[i][1] \notin visited'
            /\ to_visit'[i][1] # current[1]

\* An item whose URL was visited since it was appended is dropped when it
\* reaches the head of the frontier: the step that takes it sends no request
\* for it
VisitedHeadDropped ==
    (/\ pc = "loop"
     /\ to_visit # <<>>
     /\ to_visit' # to_visit
     /\ Head(to_visit)[1] \in visited) =>
        /\ to_visit' = Tail(to_visit)
        /\ pc' = "loop"
        /\ visited' = visited
        /\ requests' = requests

\* C29: every item ever in the frontier has a depth from 0 to the maximum
\* depth; a URL is appended to the frontier only while it is not visited, so
\* that a page never puts itself in the frontier; an item that became visited
\* while it waited is dropped when it is dequeued
C29_FrontierDepthsAndAppends ==
    /\ []FrontierDepthsInRange
    /\ [][AppendsUnvisitedOnly /\ VisitedHeadDropped]_vars

\* C29, witness: a crawl of depth 1 or more whose frontier starts with an item
\* at the maximum depth whose URL was visited while it waited
C29_Witness ==
    /\ pc = "loop"
    /\ depth >= 1
    /\ to_visit # <<>>
    /\ Head(to_visit)[1] \in visited
    /\ Head(to_visit)[2] = depth

\* What `links` emits for the seed URL with the options of the run, validation
\* off
LinksOutputForSeed ==
    LET filtered == LinksFiltered(LinksOn(start_url))
    IN  IF unique_only THEN UniqueLinks(filtered, {}) ELSE filtered

\* What `scrape --depth 0 --links-only` emits for the seed URL with the options
\* of the run, validation off
ScrapeOutputForSeed ==
    IF unique_only THEN UniqueLinks(FilteredLinksOn(start_url), {})
    ELSE FilteredLinksOn(start_url)

\* C30: for a seed page whose fetch succeeds, with validation off, `scrape` at
\* depth 0 hands to the output the link list `links` hands to the output for
\* the same URL, scope flags, include_subdomains, extension filter, type filter
\* and uniqueness toggle
C30_ScrapeDepthZeroIsLinks ==
    /\ (pc = "done" /\ output # None /\ depth = 0 /\ ~validate /\ Len(all_pages) = 1) =>
           output[1].links = LinksOutputForSeed
    /\ (pc = "links_done" /\ ~validate) =>
           output[1] = ScrapeOutputForSeed

\* C30, witness: a `scrape` at depth 0 that fetched the seed page, dropped some
\* of its links by the scope flag and a duplicate by the uniqueness pass
C30_Witness ==
    /\ pc = "done"
    /\ output # None
    /\ depth = 0
    /\ ~validate
    /\ unique_only
    /\ filters.internal_only
    /\ Len(all_pages) = 1
    /\ Len(output[1].links) >= 2
    /\ Len(output[1].links) < Len(FilteredLinksOn(start_url))
    /\ Len(FilteredLinksOn(start_url)) < all_pages[1].links_on_page

(***************************************************************************)
(* Properties of the start of a command                                    *)
(***************************************************************************)

\* C21: a command whose --headers are not valid JSON, or, for `extract`, whose
\* rules file is missing or invalid, sends no request: it fails on its
\* configuration before any fetch, and none follows
C21_ConfigErrorBeforeFetch ==
    (\/ call[1].headers = "not_json"
     \/ call[1].rules \in {"missing", "not_json", "not_rules"}) =>
        requests = <<>>

\* The same for the configurations json.loads, open and json.load reject
C21_UnparsableConfigBeforeFetch ==
    (HeadersRejected(call[1].headers) \/ RulesRejected(call[1].rules)) =>
        /\ requests = <<>>
        /\ pc \in {"rules", "headers", "config_error"}

====
